---- MODULE Spec2Model ----
(***************************************************************************)
(* Model of the room booking application src/app.py: the Booking table and *)
(* the request handlers index, new_booking, edit_booking, delete_series    *)
(* and delete_booking.                                                     *)
(*                                                                         *)
(* The state of the server is the Booking table and the uuids handed out   *)
(* so far.  The login session is a cookie kept by the browser, so every    *)
(* request carries its session.  The created_at column is written once and *)
(* never read, and is left out.  Each handler is a function from the table *)
(* and the request to the table and the response; the action of a handler  *)
(* commits the table of that result.  SpecConc takes a handler apart into  *)
(* its queries, its uncommitted writes and its commit, for the requests    *)
(* that are handled at the same time.                                      *)
(*                                                                         *)
(* Calendar dates are day numbers counted from a Monday (day 0), so that   *)
(* date.weekday() is d % 7.  A time of day is a slot number 0..MaxTime and *)
(* a datetime is the instant  date * SlotsPerDay + time, which orders      *)
(* datetimes exactly as datetime.combine(date, time) does.                 *)
(***************************************************************************)
EXTENDS Integers, Sequences, FiniteSets, TLC

\* bookings, nextUuid: the Booking table and the next uuid4 to be drawn.
\* probe: the arguments and the result of a helper applied on its own.
\* inflight: the requests being handled, each with the writes its database
\* session holds and has not committed.
VARIABLES bookings, nextUuid, probe, inflight

vars == <<bookings, nextUuid, probe, inflight>>

(* ------------------------------ bounds --------------------------------- *)

\* calendar dates are the days 0..MaxDay, times of day the slots 0..MaxTime
MaxDay == 8
MaxTime == 2
\* the largest primary key and the number of uuids the program may use
MaxId == 3
MaxUuid == 2

(* ------------------------- program constants --------------------------- *)

ROOMS == {"TMS ruimte", "CO2 ruimte", "Behandelruimte", "Wetlab"}

ACCOUNT_DEFS == {"mondriaan_maastricht", "mondriaan_heerlen",
                 "universiteit_maastricht", "mumc"}

\* series_id = None: the column is NULL for a one-off booking
NoSeries == 0

\* request.form.get(..) of a field that is absent or empty
Missing == -1

\* a field value that strptime / int() rejects with ValueError
Malformed == -2

\* the None that infer_series_pattern returns for a date
NoDate == -3

\* `who or None`: the stored value of an empty "who" field
NoWho == "None"

\* current_user() when the session names no row of User
NoUser == ""

(* --------------------------- request inputs ---------------------------- *)

Days == 0..MaxDay
Times == 0..MaxTime
SlotsPerDay == MaxTime + 1

\* date.weekday(), Monday = 0
Weekday(d) == d % 7

\* a form names day 0 as its date; a repeat part ticks Monday or Tuesday
\* and ends on a Monday
DateInputs == {0}
RepeatDaysInputs == {{}, {0}, {1}}
RepeatEndInputs == {d \in Days : Weekday(d) = 0} \cup {Missing}
UserInputs == {"mumc", "mondriaan_heerlen"}

\* the room, the texts and the times of a form: two touching slots and one
\* overlapping both in one room, and the first slot in another room
TargetInputs ==
    {[room |-> "TMS ruimte", title |-> "Intake", who |-> "",
      stime |-> 0, etime |-> 1],
     [room |-> "TMS ruimte", title |-> "TMS sessie", who |-> "Anna",
      stime |-> 1, etime |-> 2],
     [room |-> "TMS ruimte", title |-> "Intake", who |-> "Anna",
      stime |-> 0, etime |-> 2],
     [room |-> "CO2 ruimte", title |-> "TMS sessie", who |-> "",
      stime |-> 0, etime |-> 1]}

\* a submitted form: the fields read by request.form.get / getlist
Form(x, d, w, n) ==
    [room |-> x.room, title |-> x.title, who |-> x.who, date |-> d,
     stime |-> x.stime, etime |-> x.etime, rdays |-> w, rend |-> n]

\* the well-formed forms, without and with a repeat part
SingleForms == {Form(x, d, {}, Missing) : x \in TargetInputs, d \in DateInputs}
RepeatForms == {Form(x, d, w, n) : x \in TargetInputs, d \in DateInputs,
                                   w \in RepeatDaysInputs,
                                   n \in RepeatEndInputs}
ValidForms == SingleForms \cup RepeatForms

\* one form for each way of failing validation
BaseForm == [room |-> "TMS ruimte", title |-> "Intake", who |-> "",
             date |-> 0, stime |-> 0, etime |-> 1, rdays |-> {0},
             rend |-> 0]

InvalidForms ==
    {[BaseForm EXCEPT !.room = "Kelder"],
     [BaseForm EXCEPT !.title = ""],
     [BaseForm EXCEPT !.date = Missing],
     [BaseForm EXCEPT !.etime = Missing],
     [BaseForm EXCEPT !.date = Malformed],
     [BaseForm EXCEPT !.stime = Malformed],
     [BaseForm EXCEPT !.stime = 1, !.etime = 1],
     [BaseForm EXCEPT !.stime = 2, !.etime = 1],
     [BaseForm EXCEPT !.rend = Malformed],
     [BaseForm EXCEPT !.rdays = {Malformed}]}

Forms == ValidForms \cup InvalidForms

(* ------------------------------ helpers -------------------------------- *)

\* datetime.combine(d, t)
Combine(d, t) == d * SlotsPerDay + t

\* datetime.date() and datetime.time()
DateOf(dt) == dt \div SlotsPerDay
TimeOf(dt) == dt % SlotsPerDay

Range(s) == {s[i] : i \in 1..Len(s)}

\* the while loops of new_booking and edit_booking:
\*   while cur <= end: if cur.weekday() in weekdays: append(cur); cur += 1 day
RECURSIVE WalkDates(_, _, _)
WalkDates(cur, endDate, weekdays) ==
    IF cur > endDate THEN <<>>
    ELSE (IF Weekday(cur) \in weekdays THEN <<cur>> ELSE <<>>)
         \o WalkDates(cur + 1, endDate, weekdays)

\* the filter with <= and >=: ranges that only touch count as overlapping
OverlapFilterClosed(b, sdt, edt) == b.start <= edt /\ b.end >= sdt

\* the SQL filter  Booking.start < edt AND Booking.end > sdt
OverlapFilter(b, sdt, edt) == b.start < edt /\ b.end > sdt

\* the SQL filter  Booking.series_id != :sid  with a non-NULL parameter:
\* the comparison is NULL, hence not true, for a row whose series_id is NULL
SeriesIdNe(b, sid) == b.series_id # NoSeries /\ b.series_id # sid

\* get_series_occurrences
get_series_occurrences(tbl, sid) == {o \in tbl : o.series_id = sid}

\* the weekday set taken from the first occurrence only
infer_series_pattern_first_weekday(occs) ==
    LET dates == {DateOf(o.start) : o \in occs}
        first == CHOOSE d \in dates : \A e \in dates : d <= e
    IN IF occs = {}
       THEN [anchor |-> NoDate, weekdays |-> {}, end |-> NoDate]
       ELSE [anchor |-> first,
             weekdays |-> {Weekday(first)},
             end |-> CHOOSE d \in dates : \A e \in dates : d >= e]

\* infer_series_pattern: (min date, weekdays present, max date), or
\* (None, set(), None) for an empty occurrence list
infer_series_pattern(occs) ==
    LET dates == {DateOf(o.start) : o \in occs}
    IN IF occs = {}
       THEN [anchor |-> NoDate, weekdays |-> {}, end |-> NoDate]
       ELSE [anchor |-> CHOOSE d \in dates : \A e \in dates : d <= e,
             weekdays |-> {Weekday(d) : d \in dates},
             end |-> CHOOSE d \in dates : \A e \in dates : d >= e]

\* current_user(): the User row of session['user'], or None
current_user(sess) ==
    IF sess.user \in ACCOUNT_DEFS THEN sess.user ELSE NoUser

\* `who or None`
WhoOrNone(who) == IF who = "" THEN NoWho ELSE who

\* the test with < for <=: an end equal to the start passes
EndBeforeStart(f) ==
    Combine(f.date, f.etime) < Combine(f.date, f.stime)

\* end_dt <= start_dt, new_end <= new_start
EndNotAfterStart(f) ==
    Combine(f.date, f.etime) <= Combine(f.date, f.stime)

(* ------------------------------ sessions ------------------------------- *)

NoSession == [authed |-> FALSE, user |-> NoUser]

\* login(): the session of a browser that has logged in as u
login(u) == [authed |-> TRUE, user |-> u]

\* the sessions a request can carry: none, one from a login, and one whose
\* account is no longer in the User table
Sessions == {NoSession} \cup {login(u) : u \in UserInputs}
            \cup {login("verwijderd")}

\* login() with a wrong user name or password: the session is left as it is
login_failed(sess) == sess

\* logout(): session.pop('authed'), session.pop('user')
logout(sess) == [sess EXCEPT !.authed = FALSE, !.user = NoUser]

(* ------------------------------ database ------------------------------- *)

\* the primary key of an inserted row: an INTEGER PRIMARY KEY of SQLite
\* takes one more than the largest key in the table
NewId(tbl) ==
    IF tbl = {} THEN 1
    ELSE 1 + (CHOOSE i \in {b.id : b \in tbl} : \A b \in tbl : b.id <= i)

\* Booking(room=.., title=.., account=.., who=who or None, start=sdt,
\* end=edt, series_id=..) and db.session.add, for the date d
AddBooking(tbl, d, f) ==
    tbl \cup {[id |-> NewId(tbl), room |-> f.room, title |-> f.title,
               account |-> f.account, who |-> WhoOrNone(f.who),
               start |-> Combine(d, f.stime), end |-> Combine(d, f.etime),
               series_id |-> f.series_id]}

\* a handler result that leaves the database as it is
NoChange(tbl, uuid, outcome) ==
    [outcome |-> outcome, tbl |-> tbl, uuid |-> uuid,
     dates |-> <<>>, flagged |-> <<>>, count |-> 0, series |-> NoSeries]

(* ---------------------------- new_booking ------------------------------ *)

\* the walk started on the base date instead of the day after it
booking_dates_from_base(base, repeat_days, repeat_end) ==
    IF repeat_days # {} /\ repeat_end # Missing
    THEN <<base>> \o WalkDates(base, repeat_end, repeat_days)
    ELSE <<base>>

\* booking_dates of new_booking: the base date, then the repeat dates
booking_dates(base, repeat_days, repeat_end) ==
    IF repeat_days # {} /\ repeat_end # Missing
    THEN <<base>> \o WalkDates(base + 1, repeat_end, repeat_days)
    ELSE <<base>>

\* a series identifier drawn whatever the number of dates
MintSeriesIdAlways(dates, uuid) == uuid

\* series_id = None; if len(booking_dates) > 1: series_id = str(uuid.uuid4())
MintSeriesId(dates, uuid) == IF Len(dates) > 1 THEN uuid ELSE NoSeries

\* the loop left at the first conflicting date (break for continue)
RECURSIVE CreateLoopBreak(_, _, _, _)
CreateLoopBreak(dates, i, acc, f) ==
    IF i > Len(dates) THEN acc
    ELSE LET d == dates[i]
             sdt == Combine(d, f.stime)
             edt == Combine(d, f.etime)
             overlap == \E b \in acc.tbl :
                            b.room = f.room /\ OverlapFilter(b, sdt, edt)
         IN IF overlap
            THEN [acc EXCEPT !.skipped = Append(@, d)]
            ELSE CreateLoopBreak(dates, i + 1,
                     [acc EXCEPT !.tbl = AddBooking(@, d, f),
                                 !.created = @ + 1], f)

\* the loop over booking_dates[i..]: acc is the table, the created count
\* and the skipped dates so far; f the fields of the new rows.  The query
\* of each round sees the rows added in the rounds before it (autoflush).
RECURSIVE CreateLoop(_, _, _, _)
CreateLoop(dates, i, acc, f) ==
    IF i > Len(dates) THEN acc
    ELSE LET d == dates[i]
             sdt == Combine(d, f.stime)
             edt == Combine(d, f.etime)
             overlap == \E b \in acc.tbl :
                            b.room = f.room /\ OverlapFilter(b, sdt, edt)
         IN IF overlap
            THEN CreateLoop(dates, i + 1,
                     [acc EXCEPT !.skipped = Append(@, d)], f)
            ELSE CreateLoop(dates, i + 1,
                     [acc EXCEPT !.tbl = AddBooking(@, d, f),
                                 !.created = @ + 1], f)

\* POST /book/new for the logged-in account me: the database afterwards and
\* the response, as a function of the database before and the form
new_booking(tbl, uuid, me, f) ==
    IF f.room \notin ROOMS
    THEN NoChange(tbl, uuid, "invalid_room")
    ELSE IF f.title = "" \/ Missing \in {f.date, f.stime, f.etime}
    THEN NoChange(tbl, uuid, "invalid_missing")
    ELSE IF Malformed \in {f.date, f.stime, f.etime}
    THEN NoChange(tbl, uuid, "invalid_datetime")
    ELSE IF EndNotAfterStart(f)
    THEN NoChange(tbl, uuid, "invalid_order")
    ELSE IF f.rdays # {} /\ f.rend # Missing
            /\ (f.rend = Malformed \/ Malformed \in f.rdays)
    THEN NoChange(tbl, uuid, "invalid_repeat")
    ELSE
      LET dates == booking_dates(f.date, f.rdays, f.rend)
          sid == MintSeriesId(dates, uuid)
          res == CreateLoop(dates, 1,
                     [tbl |-> tbl, created |-> 0, skipped |-> <<>>],
                     [room |-> f.room, title |-> f.title, who |-> f.who,
                      account |-> me, stime |-> f.stime,
                      etime |-> f.etime, series_id |-> sid])
      IN [outcome |-> "ok", tbl |-> res.tbl,
          uuid |-> IF Len(dates) > 1 THEN uuid + 1 ELSE uuid,
          dates |-> dates, flagged |-> res.skipped, count |-> res.created,
          series |-> sid]

(* ---------------------------- edit_booking ----------------------------- *)

\* the fallback taken from the anchor date alone
EffectiveWeekdaysOfAnchor(f, cur) ==
    IF f.rdays = {} THEN {Weekday(cur.anchor)} ELSE f.rdays

\* repeat_weekdays: the ticked weekdays, or the current ones when
\* getlist('repeat_days') is empty
EffectiveWeekdays(f, cur) == IF f.rdays = {} THEN cur.weekdays ELSE f.rdays

\* new_series_end: the submitted end date, or the current one
EffectiveEnd(f, cur) == IF f.rend = Missing THEN cur.end ELSE f.rend

\* the conflict pre-check of a series edit: the dates of new_dates[i..] for
\* which the query finds a row
RECURSIVE SeriesConflicts(_, _, _, _, _)
SeriesConflicts(tbl, sid, f, new_dates, i) ==
    IF i > Len(new_dates) THEN <<>>
    ELSE LET sdt == Combine(new_dates[i], f.stime)
             edt == Combine(new_dates[i], f.etime)
             conflict == \E o \in tbl : /\ o.room = f.room
                                        /\ SeriesIdNe(o, sid)
                                        /\ OverlapFilter(o, sdt, edt)
         IN (IF conflict THEN <<new_dates[i]>> ELSE <<>>)
            \o SeriesConflicts(tbl, sid, f, new_dates, i + 1)

\* db.session.add of one new occurrence per date of new_dates[i..]
RECURSIVE AddAll(_, _, _, _)
AddAll(tbl, new_dates, i, nf) ==
    IF i > Len(new_dates) THEN tbl
    ELSE AddAll(AddBooking(tbl, new_dates[i], nf), new_dates, i + 1, nf)

\* the new occurrences added without deleting the old ones
ReplaceSeriesKeepOld(tbl, occs, new_dates, nf) ==
    AddAll(tbl, new_dates, 1, nf)

\* delete the old occurrences, flush, create the new ones
ReplaceSeries(tbl, occs, new_dates, nf) ==
    AddAll(tbl \ occs, new_dates, 1, nf)

\* the conflict found after the old occurrences were deleted and flushed
RejectSeriesAfterDelete(tbl, uuid, occs, new_dates, conflicts, sid) ==
    [NoChange(tbl \ occs, uuid, "conflict") EXCEPT
        !.dates = new_dates, !.flagged = conflicts, !.series = sid]

\* the answer to a series edit with conflicts: nothing is written
RejectSeries(tbl, uuid, occs, new_dates, conflicts, sid) ==
    [NoChange(tbl, uuid, "conflict") EXCEPT
        !.dates = new_dates, !.flagged = conflicts, !.series = sid]

\* the series branch of edit_booking, for the clicked occurrence b
edit_series(tbl, uuid, b, f) ==
    LET occs == get_series_occurrences(tbl, b.series_id)
        cur == infer_series_pattern(occs)
        repeat_weekdays == EffectiveWeekdays(f, cur)
        new_series_end == EffectiveEnd(f, cur)
        new_dates == WalkDates(cur.anchor, new_series_end, repeat_weekdays)
        conflicts == SeriesConflicts(tbl, b.series_id, f, new_dates, 1)
    IN IF Malformed \in f.rdays
       THEN NoChange(tbl, uuid, "invalid_weekdays")
       ELSE IF repeat_weekdays = {}
       THEN NoChange(tbl, uuid, "invalid_no_weekday")
       ELSE IF f.rend = Malformed
       THEN NoChange(tbl, uuid, "invalid_repeat_end")
       ELSE IF new_series_end < cur.anchor
       THEN NoChange(tbl, uuid, "invalid_end_before_start")
       ELSE IF conflicts # <<>>
       THEN RejectSeries(tbl, uuid, occs, new_dates, conflicts, b.series_id)
       ELSE [outcome |-> "ok_series",
             tbl |-> ReplaceSeries(tbl, occs, new_dates,
                        [room |-> f.room, title |-> f.title, who |-> f.who,
                         account |-> b.account, stime |-> f.stime,
                         etime |-> f.etime, series_id |-> b.series_id]),
             uuid |-> uuid, dates |-> new_dates, flagged |-> <<>>,
             count |-> Len(new_dates), series |-> b.series_id]

\* the conflict query without Booking.id != b.id
SingleConflictWithSelf(tbl, b, f) ==
    \E o \in tbl : /\ o.room = f.room
                   /\ OverlapFilter(o, Combine(f.date, f.stime),
                                    Combine(f.date, f.etime))

\* the conflict query of a single edit
SingleConflict(tbl, b, f) ==
    \E o \in tbl : /\ o.id # b.id
                   /\ o.room = f.room
                   /\ OverlapFilter(o, Combine(f.date, f.stime),
                                    Combine(f.date, f.etime))

\* the update without  b.end = new_end
edit_single_keeps_end(tbl, uuid, b, f) ==
    IF SingleConflict(tbl, b, f)
    THEN NoChange(tbl, uuid, "conflict")
    ELSE [NoChange((tbl \ {b}) \cup
                     {[b EXCEPT !.room = f.room, !.title = f.title,
                                !.who = WhoOrNone(f.who),
                                !.start = Combine(f.date, f.stime)]},
                   uuid, "ok_single") EXCEPT !.count = 1]

\* the single branch of edit_booking, for the booking b
edit_single(tbl, uuid, b, f) ==
    IF SingleConflict(tbl, b, f)
    THEN NoChange(tbl, uuid, "conflict")
    ELSE [NoChange((tbl \ {b}) \cup
                     {[b EXCEPT !.room = f.room, !.title = f.title,
                                !.who = WhoOrNone(f.who),
                                !.start = Combine(f.date, f.stime),
                                !.end = Combine(f.date, f.etime)]},
                   uuid, "ok_single") EXCEPT !.count = 1]

\* the edit that updates the clicked booking in place, series or not
edit_booking_in_place(tbl, uuid, booking_id, f) ==
    IF \A b \in tbl : b.id # booking_id
    THEN NoChange(tbl, uuid, "not_found")
    ELSE
      LET b == CHOOSE o \in tbl : o.id = booking_id
      IN IF f.room \notin ROOMS \/ f.title = ""
            \/ Missing \in {f.date, f.stime, f.etime}
         THEN NoChange(tbl, uuid, "invalid_missing")
         ELSE IF Malformed \in {f.date, f.stime, f.etime}
         THEN NoChange(tbl, uuid, "invalid_datetime")
         ELSE IF EndNotAfterStart(f)
         THEN NoChange(tbl, uuid, "invalid_order")
         ELSE edit_single(tbl, uuid, b, f)

\* POST /book/edit/<booking_id> for a logged-in account
edit_booking(tbl, uuid, booking_id, f) ==
    IF \A b \in tbl : b.id # booking_id
    THEN NoChange(tbl, uuid, "not_found")
    ELSE
      LET b == CHOOSE o \in tbl : o.id = booking_id
      IN IF f.room \notin ROOMS \/ f.title = ""
            \/ Missing \in {f.date, f.stime, f.etime}
         THEN NoChange(tbl, uuid, "invalid_missing")
         ELSE IF Malformed \in {f.date, f.stime, f.etime}
         THEN NoChange(tbl, uuid, "invalid_datetime")
         ELSE IF EndNotAfterStart(f)
         THEN NoChange(tbl, uuid, "invalid_order")
         ELSE IF b.series_id # NoSeries
         THEN edit_series(tbl, uuid, b, f)
         ELSE edit_single(tbl, uuid, b, f)

(* --------------------- delete_series, delete_booking ------------------- *)

\* POST /book/series/<series_id>/delete for a logged-in account
delete_series(tbl, uuid, series_id) ==
    LET occs == {o \in tbl : o.series_id # NoSeries /\ o.series_id = series_id}
    IN [NoChange(tbl \ occs, uuid, "ok") EXCEPT !.count = Cardinality(occs)]

\* the delete carried over to the whole series of the booking
delete_booking_cascade(tbl, uuid, booking_id) ==
    IF \A b \in tbl : b.id # booking_id
    THEN NoChange(tbl, uuid, "not_found")
    ELSE LET b == CHOOSE o \in tbl : o.id = booking_id
         IN [NoChange({o \in tbl : /\ o.id # booking_id
                                   /\ \/ o.series_id = NoSeries
                                      \/ o.series_id # b.series_id},
                      uuid, "ok") EXCEPT !.count = 1]

\* POST /book/delete/<booking_id> for an authed session
delete_booking(tbl, uuid, booking_id) ==
    IF \A b \in tbl : b.id # booking_id
    THEN NoChange(tbl, uuid, "not_found")
    ELSE [NoChange({b \in tbl : b.id # booking_id}, uuid, "ok")
            EXCEPT !.count = 1]


(* -------------------------------- index -------------------------------- *)

\* week_bounds: the Monday on or before start_date, and the Sunday after it
week_bounds(start_date) ==
    [monday |-> start_date - Weekday(start_date),
     sunday |-> start_date - Weekday(start_date) + 6]

\* ORDER BY start ASC; rows with equal start come in primary key order
RECURSIVE OrderByStart(_)
OrderByStart(rows) ==
    IF rows = {} THEN <<>>
    ELSE LET first == CHOOSE x \in rows : \A y \in rows :
                          \/ x.start < y.start
                          \/ x.start = y.start /\ x.id <= y.id
         IN <<first>> \o OrderByStart(rows \ {first})

\* the rows in primary key order
RECURSIVE OrderById(_)
OrderById(rows) ==
    IF rows = {} THEN <<>>
    ELSE LET first == CHOOSE x \in rows : \A y \in rows : x.id <= y.id
         IN <<first>> \o OrderById(rows \ {first})

\* the query without order_by
WeekQueryUnordered(tbl, start_dt, end_dt) ==
    OrderById({b \in tbl : b.start <= end_dt /\ b.end >= start_dt})

\* Booking.query.filter(start <= end_dt, end >= start_dt).order_by(start)
WeekQuery(tbl, start_dt, end_dt) ==
    OrderByStart({b \in tbl : b.start <= end_dt /\ b.end >= start_dt})

\* GET /: the grid of the week of start_d, room -> day -> list of bookings
index(tbl, start_d) ==
    LET week == week_bounds(start_d)
        week_start == week.monday
        week_end == week.sunday
        rows == WeekQuery(tbl, Combine(week_start, 0),
                          Combine(week_end, MaxTime))
        Bucket(room, day) ==
            LET Test(b) == /\ b.room \in ROOMS
                           /\ week_start <= DateOf(b.start)
                           /\ DateOf(b.start) <= week_end
                           /\ b.room = room
                           /\ DateOf(b.start) = day
            IN SelectSeq(rows, Test)
    IN [week_start |-> week_start, week_end |-> week_end,
        grid |-> [room \in ROOMS |->
                    [day \in week_start..(week_start + 6) |->
                        Bucket(room, day)]]]
(* ------------------------------ requests ------------------------------- *)

\* the gate without the test of session['authed']: only a session whose
\* account is gone is sent to the login page
LoginRequiredAccountGone(sess) == sess.authed /\ current_user(sess) = NoUser

\* the login gate of new_booking, edit_booking and delete_series
LoginRequired(sess) == ~sess.authed \/ current_user(sess) = NoUser

NewBookingRequest(sess, f) ==
    IF LoginRequired(sess)
    THEN NoChange(bookings, nextUuid, "login_required")
    ELSE new_booking(bookings, nextUuid, current_user(sess), f)

\* the edit that stamps the rows it writes with account=me.username, as
\* new_booking does
EditBookingRequestTakesOver(sess, booking_id, f) ==
    IF LoginRequired(sess)
    THEN NoChange(bookings, nextUuid, "login_required")
    ELSE LET r == edit_booking(bookings, nextUuid, booking_id, f)
         IN [r EXCEPT !.tbl =
                {IF o \in bookings THEN o
                 ELSE [o EXCEPT !.account = current_user(sess)] : o \in @}]

EditBookingRequest(sess, booking_id, f) ==
    IF LoginRequired(sess)
    THEN NoChange(bookings, nextUuid, "login_required")
    ELSE edit_booking(bookings, nextUuid, booking_id, f)

DeleteSeriesRequest(sess, series_id) ==
    IF LoginRequired(sess)
    THEN NoChange(bookings, nextUuid, "login_required")
    ELSE delete_series(bookings, nextUuid, series_id)

\* the delete allowed to the owning account only
DeleteBookingRequestOwnerOnly(sess, booking_id) ==
    IF ~sess.authed
    THEN NoChange(bookings, nextUuid, "login_required")
    ELSE IF \E b \in bookings : b.id = booking_id /\ b.account # sess.user
    THEN NoChange(bookings, nextUuid, "forbidden")
    ELSE delete_booking(bookings, nextUuid, booking_id)

DeleteBookingRequest(sess, booking_id) ==
    IF ~sess.authed
    THEN NoChange(bookings, nextUuid, "login_required")
    ELSE delete_booking(bookings, nextUuid, booking_id)

\* db.session.commit(): the table of the result becomes the table
Commit(r) ==
    /\ \A b \in r.tbl : b.id <= MaxId
    /\ r.uuid <= MaxUuid + 1
    /\ bookings' = r.tbl
    /\ nextUuid' = r.uuid
    /\ UNCHANGED <<probe, inflight>>

NewBooking(sess, f) == Commit(NewBookingRequest(sess, f))

EditBooking(sess, booking_id, f) ==
    Commit(EditBookingRequest(sess, booking_id, f))

DeleteSeries(sess, series_id) == Commit(DeleteSeriesRequest(sess, series_id))

DeleteBooking(sess, booking_id) ==
    Commit(DeleteBookingRequest(sess, booking_id))

Ids == 1..MaxId
Uuids == 1..MaxUuid

\* the session of the logged-in browser
Me == login("mumc")

\* another account, logged in from another browser
Other == login("mondriaan_heerlen")

\* the sessions of the accounts that log in
AccountSessions == {login(u) : u \in UserInputs}

\* the forms the edit page of booking_id can submit: the repeat part is
\* there for an occurrence of a series only
EditForms(booking_id) ==
    IF \E b \in bookings : b.id = booking_id /\ b.series_id # NoSeries
    THEN RepeatForms \cup InvalidForms
    ELSE SingleForms \cup InvalidForms

\* the requests: any form from a logged-in browser, one form from the others
NewRequests == ({Me} \X Forms)
               \cup (Sessions \X {BaseForm})

EditRequests(booking_id) ==
    ({Me} \X EditForms(booking_id))
    \cup (Sessions \X {BaseForm})

\* the two requests that may be in progress at once
Requests == {1, 2}

\* a request that is not being handled
Idle == [pc |-> "idle", kind |-> "none", sid |-> NoSeries, old |-> {},
         dates |-> <<>>, nf |-> <<>>]

NoneInFlight == [t \in Requests |-> Idle]

NoProbe == [kind |-> "none", base |-> 0, rdays |-> {}, rend |-> Missing,
            dates |-> <<>>]

Init ==
    /\ bookings = {}
    /\ nextUuid = 1
    /\ probe = NoProbe
    /\ inflight = NoneInFlight

Next ==
    \/ \E q \in NewRequests : NewBooking(q[1], q[2])
    \/ \E id \in Ids : \E q \in EditRequests(id) : EditBooking(q[1], id, q[2])
    \/ \E sess \in Sessions, sid \in Uuids : DeleteSeries(sess, sid)
    \/ \E sess \in Sessions, id \in Ids : DeleteBooking(sess, id)

Spec == Init /\ [][Next]_vars

(* ----------------- the date list of new_booking on its own ------------- *)

AllWeekdays == 0..6

InitDates ==
    /\ bookings = {}
    /\ nextUuid = 1
    /\ inflight = NoneInFlight
    /\ probe \in {[kind |-> "args", base |-> b, rdays |-> w, rend |-> n,
                   dates |-> <<>>] :
                    b \in Days, w \in SUBSET AllWeekdays,
                    n \in Days \cup {Missing}}

ApplyBookingDates ==
    /\ probe.kind = "args"
    /\ probe' = [probe EXCEPT !.kind = "booking_dates",
                   !.dates = booking_dates(probe.base, probe.rdays, probe.rend)]
    /\ UNCHANGED <<bookings, nextUuid, inflight>>

NextDates == ApplyBookingDates

SpecDates == InitDates /\ [][NextDates]_vars

(* ------------- the pattern of a series: expand, then infer ------------- *)

\* the fields of the occurrences a pattern is expanded to
PatternRow == [room |-> "TMS ruimte", title |-> "Intake", who |-> "",
               account |-> "mumc", stime |-> 0, etime |-> 1, series_id |-> 1]

InitPattern ==
    /\ bookings = {}
    /\ nextUuid = 1
    /\ inflight = NoneInFlight
    /\ probe \in {[kind |-> "pattern", base |-> a, rdays |-> w, rend |-> e,
                   dates |-> <<>>, inferred |-> infer_series_pattern({})] :
                    a \in Days, w \in SUBSET AllWeekdays, e \in Days}

\* the new dates of a series edit, stored as occurrences, and the pattern
\* infer_series_pattern reads back from them
ApplyExpandInfer ==
    /\ probe.kind = "pattern"
    /\ LET new_dates == WalkDates(probe.base, probe.rend, probe.rdays)
           tbl == AddAll({}, new_dates, 1, PatternRow)
           occs == get_series_occurrences(tbl, PatternRow.series_id)
       IN probe' = [probe EXCEPT !.kind = "inferred",
                                 !.dates = new_dates,
                                 !.inferred = infer_series_pattern(occs)]
    /\ UNCHANGED <<bookings, nextUuid, inflight>>

NextPattern == ApplyExpandInfer

SpecPattern == InitPattern /\ [][NextPattern]_vars

(* ------ a series, one occurrence deleted, then edited with no pattern --- *)

\* the series created: from day 0, on Mondays, Tuesdays or both, until a
\* date of the second week
RegenEndInputs == {d \in Days : d >= 7}

RegenForms ==
    {Form(x, 0, w, n) : x \in {x \in TargetInputs : /\ x.room = "TMS ruimte"
                                                    /\ x.etime - x.stime = 1},
                        w \in {{0}, {1}, {0, 1}}, n \in RegenEndInputs}

\* the edit forms that leave the weekday boxes and the end date empty
NoPatternForms == {f \in RepeatForms : f.rdays = {} /\ f.rend = Missing}

\* the occurrence deleted last, and its series
Deleted(b) == [kind |-> "deleted", series |-> b.series_id,
               date |-> DateOf(b.start)]

CreateSeries(f) == NewBooking(Me, f)

\* delete_booking of one occurrence of a series
DeleteOccurrence(b) ==
    /\ b.series_id # NoSeries
    /\ bookings' = DeleteBookingRequest(Me, b.id).tbl
    /\ probe' = Deleted(b)
    /\ UNCHANGED <<nextUuid, inflight>>

\* a committed series edit; the series is as the edit made it
EditSeriesNoPattern(b, f) ==
    LET r == EditBookingRequest(Me, b.id, f)
    IN /\ b.series_id # NoSeries
       /\ r.outcome = "ok_series"
       /\ \A o \in r.tbl : o.id <= MaxId
       /\ bookings' = r.tbl
       /\ probe' = IF probe.kind = "deleted" /\ probe.series = b.series_id
                   THEN NoProbe ELSE probe
       /\ UNCHANGED <<nextUuid, inflight>>

NextRegen ==
    \/ \E f \in RegenForms : CreateSeries(f)
    \/ \E b \in bookings : DeleteOccurrence(b)
    \/ \E b \in bookings : \E f \in NoPatternForms : EditSeriesNoPattern(b, f)

SpecRegen == Init /\ [][NextRegen]_vars

(* ---------- requests in progress at once: check, write, commit --------- *)

\* A request runs in its own database session.  Its queries read the
\* committed table; the rows it adds, changes and deletes stay in the
\* session, invisible to the other requests, until db.session.commit().
\* The conflict queries of one request are taken as one step.

\* the forms of the requests in progress: one room, day 0, two slots
ConcTargets == {x \in TargetInputs : x.room = "TMS ruimte" /\ x.who = ""}
               \cup {x \in TargetInputs : x.stime = 1}
ConcNewForms == {Form(x, 0, {}, Missing) : x \in ConcTargets}
                \cup {Form(x, 0, {0}, 7) : x \in {x \in ConcTargets : x.stime = 1}}
ConcEditForms == {Form(x, 0, {}, Missing) : x \in ConcTargets}

\* the columns of Booking that edit_booking assigns
Columns == {"room", "title", "who", "start", "end"}

\* the session of new_booking after its loop: the rows to insert
PlanNew(r, f) ==
    LET Kept(d) == d \notin Range(r.flagged)
    IN [pc |-> "checked", kind |-> "new", sid |-> r.series, old |-> {},
        dates |-> SelectSeq(r.dates, Kept),
        nf |-> [room |-> f.room, title |-> f.title, who |-> f.who,
                account |-> Me.user, stime |-> f.stime, etime |-> f.etime,
                series_id |-> r.series]]

\* the session of a single edit after its conflict query: the row b with
\* its new column values
PlanSingle(r, b) ==
    [pc |-> "checked", kind |-> "single", sid |-> NoSeries, old |-> {b},
     dates |-> <<>>, nf |-> CHOOSE o \in r.tbl : o.id = b.id]

\* the session of a series edit after its pre-check: the occurrences read
\* and the rows to put in their place
PlanSeries(r, b, f) ==
    [pc |-> "checked", kind |-> "series", sid |-> b.series_id,
     old |-> get_series_occurrences(bookings, b.series_id),
     dates |-> r.dates,
     nf |-> [room |-> f.room, title |-> f.title, who |-> f.who,
             account |-> b.account, stime |-> f.stime, etime |-> f.etime,
             series_id |-> b.series_id]]

\* UPDATE booking SET <the columns whose value changed> WHERE id = ..
MergeUpdate(row, old, new) ==
    [c \in DOMAIN row |->
        IF c \in Columns /\ new[c] # old[c] THEN new[c] ELSE row[c]]

\* the table after the writes of session x are committed to tbl
ApplyWrites(x, tbl) ==
    CASE x.kind = "new" -> AddAll(tbl, x.dates, 1, x.nf)
      [] x.kind = "single" ->
            LET b == CHOOSE o \in x.old : TRUE
            IN {IF o.id = b.id THEN MergeUpdate(o, b, x.nf) ELSE o : o \in tbl}
      [] x.kind = "series" ->
            AddAll({o \in tbl : o.id \notin {b.id : b \in x.old}},
                   x.dates, 1, x.nf)

\* new_booking up to its commit
BeginNewBooking(t, f) ==
    /\ inflight[t].pc = "idle"
    /\ LET r == NewBookingRequest(Me, f)
       IN /\ r.outcome = "ok"
          /\ r.uuid <= MaxUuid + 1
          /\ nextUuid' = r.uuid
          /\ inflight' = [inflight EXCEPT ![t] = PlanNew(r, f)]
    /\ UNCHANGED <<bookings, probe>>

\* edit_booking up to its first write; one series is edited by one request
\* at a time
BeginEditBooking(t, b, f) ==
    /\ inflight[t].pc = "idle"
    /\ b.series_id # NoSeries
       => \A u \in Requests : inflight[u].sid # b.series_id
    /\ LET r == EditBookingRequest(Me, b.id, f)
       IN /\ r.outcome \in {"ok_single", "ok_series"}
          /\ inflight' = [inflight EXCEPT ![t] =
                            IF b.series_id = NoSeries
                            THEN PlanSingle(r, b) ELSE PlanSeries(r, b, f)]
    /\ UNCHANGED <<bookings, nextUuid, probe>>

\* the old occurrences deleted with commit() in the place of flush()
FlushDeleteCommitted(t) ==
    /\ inflight[t].pc = "checked"
    /\ inflight[t].kind = "series"
    /\ inflight' = [inflight EXCEPT ![t].pc = "flushed"]
    /\ bookings' = bookings \ inflight[t].old
    /\ UNCHANGED <<nextUuid, probe>>

\* for occ in occs: db.session.delete(occ); db.session.flush(): the DELETEs
\* are sent inside the transaction of the session
FlushDelete(t) ==
    /\ inflight[t].pc = "checked"
    /\ inflight[t].kind = "series"
    /\ inflight' = [inflight EXCEPT ![t].pc = "flushed"]
    /\ UNCHANGED <<bookings, nextUuid, probe>>

\* db.session.commit()
CommitTx(t) ==
    /\ \/ inflight[t].pc = "checked" /\ inflight[t].kind \in {"new", "single"}
       \/ inflight[t].pc = "flushed"
    /\ LET tbl == ApplyWrites(inflight[t], bookings)
       IN /\ \A o \in tbl : o.id <= MaxId
          /\ bookings' = tbl
    /\ inflight' = [inflight EXCEPT ![t].pc = "committed"]
    /\ UNCHANGED <<nextUuid, probe>>

\* flash(..); return redirect(url_for('index'))
Respond(t) ==
    /\ inflight[t].pc = "committed"
    /\ inflight' = [inflight EXCEPT ![t] = Idle]
    /\ UNCHANGED <<bookings, nextUuid, probe>>

NextConc ==
    \/ \E t \in Requests : \E f \in ConcNewForms : BeginNewBooking(t, f)
    \/ \E t \in Requests : \E b \in bookings : \E f \in ConcEditForms :
          BeginEditBooking(t, b, f)
    \/ \E t \in Requests : FlushDelete(t)
    \/ \E t \in Requests : CommitTx(t)
    \/ \E t \in Requests : Respond(t)

SpecConc == Init /\ [][NextConc]_vars

(* ======================= properties of the handlers ==================== *)

SeriesBookings == {b \in bookings : b.series_id # NoSeries}
SingleBookings == {b \in bookings : b.series_id = NoSeries}

\* the range of a form on date d meets the range of booking o in the room
\* of the form
Clashes(o, f, d) ==
    /\ o.room = f.room
    /\ o.start < Combine(d, f.etime)
    /\ o.end > Combine(d, f.stime)

\* the dates of the series of b before an edit
SeriesDates(b) ==
    {DateOf(o.start) : o \in {o \in bookings : o.series_id = b.series_id}}

MinOf(S) == CHOOSE d \in S : \A e \in S : d <= e
MaxOf(S) == CHOOSE d \in S : \A e \in S : d >= e

\* the dates of the pattern a series edit of b with form f asks for:
\* Expand(anchor, effective weekday set, effective end date)
PatternDates(b, f) ==
    LET anchor == MinOf(SeriesDates(b))
        wds == IF f.rdays # {} THEN f.rdays
               ELSE {Weekday(d) : d \in SeriesDates(b)}
        endDate == IF f.rend # Missing THEN f.rend ELSE MaxOf(SeriesDates(b))
    IN {d \in anchor..endDate : Weekday(d) \in wds}

\* the dates of the new pattern that meet a booking outside the series
ForeignConflictDates(b, f) ==
    {d \in PatternDates(b, f) :
        \E o \in bookings : o.series_id # b.series_id /\ Clashes(o, f, d)}

InvalidOutcomes ==
    {"invalid_room", "invalid_missing", "invalid_datetime", "invalid_order",
     "invalid_repeat", "invalid_weekdays", "invalid_no_weekday",
     "invalid_repeat_end", "invalid_end_before_start"}

\* C1: no two distinct bookings in the same room overlap unless they belong
\* to the same non-null series.
C1_NoDoubleBooking ==
    \A a, b \in bookings :
        (a.id # b.id /\ a.room = b.room /\ a.start < b.end /\ a.end > b.start)
        => (a.series_id # NoSeries /\ a.series_id = b.series_id)

\* C2: a series edit that passes validation is rejected exactly when a date
\* of the new pattern meets, in the target room, a booking outside the
\* edited series, and the reported dates are exactly those dates.
C2_SeriesEditRejectedIffForeignConflict ==
    \A b \in SeriesBookings : \A f \in RepeatForms :
        LET r == EditBookingRequest(Me, b.id, f)
        IN r.outcome \in {"conflict", "ok_series"}
           => /\ (r.outcome = "conflict") <=> (ForeignConflictDates(b, f) # {})
              /\ Range(r.flagged) = ForeignConflictDates(b, f)

\* C3: a series edit rejected for a conflict leaves the booking table as it
\* was.
C3_RejectedSeriesEditChangesNothing ==
    \A b \in SeriesBookings : \A f \in EditForms(b.id) :
        LET r == EditBookingRequest(Me, b.id, f)
        IN r.outcome = "conflict" => r.tbl = bookings /\ r.uuid = nextUuid

C3_Witness ==
    \E b \in SeriesBookings : \E f \in RepeatForms :
        LET r == EditBookingRequest(Me, b.id, f)
        IN /\ r.outcome = "conflict"
           /\ Len(r.flagged) < Len(r.dates)
           /\ Cardinality(SeriesDates(b)) > 1

\* C4: after a successful series edit the bookings of the series are exactly
\* one per date of the new pattern expanded from the old anchor, each with
\* the new room, title, who and times, the old series identifier and the old
\* account; every booking outside the series is as before.
C4_SeriesEditReplacesSeries ==
    \A b \in SeriesBookings : \A f \in RepeatForms :
        LET r == EditBookingRequest(Me, b.id, f)
            occs == {o \in r.tbl : o.series_id = b.series_id}
        IN r.outcome = "ok_series"
           => /\ {DateOf(o.start) : o \in occs} = PatternDates(b, f)
              /\ Cardinality(occs) = Cardinality(PatternDates(b, f))
              /\ \A o \in occs :
                    /\ o.room = f.room
                    /\ o.title = f.title
                    /\ o.who = (IF f.who = "" THEN NoWho ELSE f.who)
                    /\ TimeOf(o.start) = f.stime
                    /\ TimeOf(o.end) = f.etime
                    /\ DateOf(o.end) = DateOf(o.start)
                    /\ o.account = b.account
              /\ {o \in r.tbl : o.series_id # b.series_id}
                    = {o \in bookings : o.series_id # b.series_id}

C4_Witness ==
    \E b \in SeriesBookings : \E f \in RepeatForms :
        LET r == EditBookingRequest(Me, b.id, f)
        IN /\ r.outcome = "ok_series"
           /\ Len(r.dates) > 1
           /\ f.room # b.room
           /\ Range(r.dates) # SeriesDates(b)
           /\ SingleBookings # {}

\* C5: new_booking skips and reports exactly the candidate dates whose range
\* meets a booking of the room, adds exactly one booking for every other
\* candidate date, never rejects the request for a conflict, reports as
\* created the candidates minus the skipped, and leaves the old bookings as
\* they were.
C5_CreateSkipsConflictingDates ==
    \A f \in Forms :
        LET r == NewBookingRequest(Me, f)
            skipped == {d \in Range(r.dates) :
                           \E o \in bookings : Clashes(o, f, d)}
            added == r.tbl \ bookings
        IN /\ r.outcome # "conflict"
           /\ r.outcome = "ok"
              => /\ Range(r.flagged) = skipped
                 /\ Len(r.flagged) = Cardinality(skipped)
                 /\ bookings \subseteq r.tbl
                 /\ \A d \in Range(r.dates) \ skipped :
                       Cardinality({o \in added :
                           /\ o.start = Combine(d, f.stime)
                           /\ o.end = Combine(d, f.etime)
                           /\ o.room = f.room}) = 1
                 /\ Cardinality(added) = Cardinality(Range(r.dates) \ skipped)
                 /\ r.count = Len(r.dates) - Len(r.flagged)

C5_Witness ==
    \E f \in Forms :
        LET r == NewBookingRequest(Me, f)
        IN /\ r.outcome = "ok"
           /\ Len(r.flagged) = 1
           /\ r.flagged[1] = r.dates[1]
           /\ r.count = 1

\* C6: the candidate dates of new_booking are the base date alone when the
\* weekday set or the end date of the repeat part is absent, and otherwise
\* the base date followed, in ascending order and without duplicates, by
\* the dates after it up to the end date whose weekday is in the set.
C6_CandidateDates ==
    probe.kind = "booking_dates"
    => LET ds == probe.dates
           repeats == IF probe.rdays # {} /\ probe.rend # Missing
                      THEN {d \in Days : /\ probe.base < d
                                         /\ d <= probe.rend
                                         /\ Weekday(d) \in probe.rdays}
                      ELSE {}
       IN /\ Len(ds) >= 1
          /\ ds[1] = probe.base
          /\ \A i, j \in 1..Len(ds) : i < j => ds[i] < ds[j]
          /\ Range(ds) = {probe.base} \cup repeats

C6_Witness ==
    /\ probe.kind = "booking_dates"
    /\ Len(probe.dates) > 2
    /\ Weekday(probe.base) \notin probe.rdays
    /\ probe.dates[Len(probe.dates)] = probe.rend

\* C7: the bookings a new_booking request with more than one candidate date
\* adds all carry one series identifier that no other booking carries and
\* that is never handed out again; with one candidate date the added
\* booking has no series identifier.
C7_FreshSeriesIdentifier ==
    /\ \A o \in bookings : o.series_id < nextUuid
    /\ \A f \in Forms :
        LET r == NewBookingRequest(Me, f)
            added == r.tbl \ bookings
        IN r.outcome = "ok"
           => IF Len(r.dates) > 1
              THEN /\ r.series # NoSeries
                   /\ \A o \in added : o.series_id = r.series
                   /\ \A o \in bookings : o.series_id # r.series
                   /\ r.series < r.uuid
              ELSE \A o \in added : o.series_id = NoSeries

C7_Witness ==
    /\ SeriesBookings # {}
    /\ \E f \in Forms, g \in Forms :
        /\ Cardinality(NewBookingRequest(Me, f).tbl \ bookings) > 1
        /\ Len(NewBookingRequest(Me, g).dates) = 1
        /\ Cardinality(NewBookingRequest(Me, g).tbl \ bookings) = 1

\* C8: a single edit that passes validation is rejected, changing nothing,
\* when the new range meets another booking of the new room; otherwise it
\* sets room, title, who, start and end of that one booking, which keeps
\* its id, account and null series identifier, and changes no other booking.
C8_SingleEditInPlace ==
    \A b \in SingleBookings : \A f \in SingleForms :
        LET r == EditBookingRequest(Me, b.id, f)
        IN IF \E o \in bookings : o # b /\ Clashes(o, f, f.date)
           THEN r.outcome = "conflict" /\ r.tbl = bookings
           ELSE /\ r.outcome = "ok_single"
                /\ \E nb \in r.tbl :
                      /\ nb.id = b.id
                      /\ nb.account = b.account
                      /\ nb.series_id = NoSeries
                      /\ nb.room = f.room
                      /\ nb.title = f.title
                      /\ nb.who = (IF f.who = "" THEN NoWho ELSE f.who)
                      /\ nb.start = Combine(f.date, f.stime)
                      /\ nb.end = Combine(f.date, f.etime)
                      /\ r.tbl \ {nb} = bookings \ {b}

C8_Witness ==
    \E b \in SingleBookings : \E f \in SingleForms, g \in SingleForms :
        /\ EditBookingRequest(Me, b.id, f).outcome = "conflict"
        /\ EditBookingRequest(Me, b.id, g).outcome = "ok_single"
        /\ g.room # b.room
        /\ EditBookingRequest(Me, b.id, g).tbl # bookings

\* what the forms call a validation failure: a room outside the list, a
\* missing title, date or time, a malformed date or time, an end not after
\* the start
FailsValidation(f) ==
    \/ f.room \notin ROOMS
    \/ f.title = ""
    \/ Missing \in {f.date, f.stime, f.etime}
    \/ Malformed \in {f.date, f.stime, f.etime}
    \/ f.etime <= f.stime

\* for a series edit also: an end date before the anchor date
FailsSeriesValidation(b, f) ==
    \/ FailsValidation(f)
    \/ b.series_id # NoSeries /\ f.rend >= 0 /\ f.rend < MinOf(SeriesDates(b))

\* C9: a create or edit request that fails validation leaves the booking
\* table as it was.
C9_InvalidRequestChangesNothing ==
    /\ \A f \in Forms :
        LET r == NewBookingRequest(Me, f)
        IN FailsValidation(f) \/ r.outcome \in InvalidOutcomes
           => r.tbl = bookings /\ r.uuid = nextUuid
    /\ \A b \in bookings : \A f \in Forms :
        LET r == EditBookingRequest(Me, b.id, f)
        IN FailsSeriesValidation(b, f) \/ r.outcome \in InvalidOutcomes
           => r.tbl = bookings /\ r.uuid = nextUuid

C9_Witness ==
    /\ SingleBookings # {}
    /\ \E b \in SeriesBookings : \E f \in RepeatForms :
          EditBookingRequest(Me, b.id, f).outcome = "invalid_end_before_start"
    /\ \E f \in InvalidForms :
          /\ f.etime = f.stime
          /\ NewBookingRequest(Me, f).outcome = "invalid_order"

\* C10: a series edit whose form ticks no weekday is rejected with a
\* validation error.
C10_EmptyWeekdaySetRejected ==
    \A b \in SeriesBookings : \A f \in RepeatForms :
        f.rdays = {}
        => EditBookingRequest(Me, b.id, f).outcome \in InvalidOutcomes


(* ============== properties of deletion, ownership and trust ============ *)

\* C11: delete_series removes every booking carrying the series identifier,
\* reports their number and leaves every other booking as it was;
\* delete_booking removes exactly the one booking, and the other
\* occurrences of its series stay.
C11_DeleteRemovesExactly ==
    /\ \A sid \in Uuids :
        LET r == DeleteSeriesRequest(Me, sid)
            occs == {o \in bookings : o.series_id = sid}
        IN /\ r.tbl = bookings \ occs
           /\ r.count = Cardinality(occs)
    /\ \A b \in bookings :
        LET r == DeleteBookingRequest(Me, b.id)
        IN /\ r.outcome = "ok"
           /\ r.tbl = bookings \ {b}
           /\ \A o \in bookings :
                 o # b /\ o.series_id = b.series_id => o \in r.tbl

C11_Witness ==
    \E b \in SeriesBookings :
        /\ Cardinality({o \in bookings : o.series_id = b.series_id}) > 1
        /\ SingleBookings # {}
        /\ DeleteSeriesRequest(Me, b.series_id).count = 2
        /\ Cardinality(DeleteBookingRequest(Me, b.id).tbl) = 2

\* the pattern given to the expansion
GivenPattern ==
    [anchor |-> probe.base, weekdays |-> probe.rdays, end |-> probe.rend]

\* the pattern is tight on its dates: the anchor and the end date are dates
\* of the pattern, and every weekday of the set falls between them
TightPattern ==
    /\ probe.base <= probe.rend
    /\ Weekday(probe.base) \in probe.rdays
    /\ Weekday(probe.rend) \in probe.rdays
    /\ probe.rdays \subseteq {Weekday(d) : d \in probe.base..probe.rend}

\* C12 as stated: for every anchor date, weekday set and end date, the
\* pattern inferred from the expanded dates is the pattern expanded.
C12_RoundTripEveryPattern ==
    probe.kind = "inferred" => probe.inferred = GivenPattern

\* C12: the pattern inferred from the dates expanded from an anchor date, a
\* weekday set and an end date is that pattern exactly when the anchor and
\* the end date are themselves dates of the pattern and every weekday of the
\* set falls on a date between them.
C12_RoundTripTightPattern ==
    probe.kind = "inferred"
    => (probe.inferred = GivenPattern <=> TightPattern)

C12_Witness ==
    /\ probe.kind = "inferred"
    /\ TightPattern
    /\ Cardinality(probe.rdays) > 1
    /\ Len(probe.dates) > 2
    /\ probe.inferred = GivenPattern

\* the dates of the series sid in the table tbl
DatesOfSeries(tbl, sid) == {DateOf(o.start) : o \in {o \in tbl : o.series_id = sid}}

\* the deleted date lies between the first and the last remaining occurrence
\* and some remaining occurrence falls on its weekday
DeletedInsidePattern ==
    LET rest == DatesOfSeries(bookings, probe.series)
    IN /\ \E d \in rest : d < probe.date
       /\ \E d \in rest : d > probe.date
       /\ \E d \in rest : Weekday(d) = Weekday(probe.date)

\* C13 as stated: after an occurrence was deleted, a conflict-free series
\* edit with no weekday set and no end date puts a booking on the deleted
\* date again.
C13_DeletedDateComesBack ==
    probe.kind = "deleted"
    => \A b \in bookings : \A f \in NoPatternForms :
          LET r == EditBookingRequest(Me, b.id, f)
          IN b.series_id = probe.series /\ r.outcome = "ok_series"
             => probe.date \in DatesOfSeries(r.tbl, probe.series)

\* C13: after an occurrence was deleted, a conflict-free series edit with no
\* weekday set and no end date puts a booking on the deleted date again
\* exactly when that date lies between the first and the last remaining
\* occurrence and its weekday is the weekday of a remaining occurrence.
C13_DeletedDateComesBackInsidePattern ==
    probe.kind = "deleted"
    => \A b \in bookings : \A f \in NoPatternForms :
          LET r == EditBookingRequest(Me, b.id, f)
          IN b.series_id = probe.series /\ r.outcome = "ok_series"
             => (probe.date \in DatesOfSeries(r.tbl, probe.series)
                 <=> DeletedInsidePattern)

C13_Witness ==
    /\ probe.kind = "deleted"
    /\ DeletedInsidePattern
    /\ \E b \in bookings : \E f \in NoPatternForms :
          LET r == EditBookingRequest(Me, b.id, f)
          IN /\ b.series_id = probe.series
             /\ r.outcome = "ok_series"
             /\ probe.date \in DatesOfSeries(r.tbl, probe.series)
             /\ probe.date \notin DatesOfSeries(bookings, probe.series)

\* C14: the end of every booking is strictly after its start.
C14_EndAfterStart == \A b \in bookings : b.end > b.start

C14_Witness ==
    /\ \E b \in SingleBookings : b.end - b.start = 2
    /\ \E b \in SeriesBookings :
          /\ b.end - b.start = 1
          /\ \E f \in InvalidForms :
                /\ f.etime < f.stime
                /\ EditBookingRequest(Me, b.id, f).outcome = "invalid_order"

\* C15: the bookings a create request adds belong to the account logged in,
\* and an edit by any logged-in account writes only the edited booking, or
\* the occurrences of the edited series, with the account the booking had.
C15_OwnershipNeverTransfers ==
    /\ \A s \in AccountSessions : \A f \in Forms :
          LET r == NewBookingRequest(s, f)
          IN /\ bookings \subseteq r.tbl
             /\ \A o \in r.tbl \ bookings : o.account = s.user
    /\ \A s \in AccountSessions : \A b \in bookings : \A f \in EditForms(b.id) :
          LET r == EditBookingRequest(s, b.id, f)
          IN \A o \in r.tbl \ bookings :
                /\ o.account = b.account
                /\ IF b.series_id = NoSeries
                   THEN o.id = b.id
                   ELSE o.series_id = b.series_id

C15_Witness ==
    /\ \E b \in SingleBookings : \E f \in SingleForms :
          /\ b.account = Other.user
          /\ EditBookingRequest(Me, b.id, f).outcome = "ok_single"
          /\ EditBookingRequest(Me, b.id, f).tbl # bookings
    /\ \E b \in SeriesBookings : \E f \in RepeatForms :
          /\ b.account = Me.user
          /\ EditBookingRequest(Other, b.id, f).outcome = "ok_series"
          /\ EditBookingRequest(Other, b.id, f).tbl # bookings

\* C16: an edit, a series edit, a delete and a series delete have the same
\* outcome and the same effect on the table from every logged-in account,
\* and an account that does not own the booking deletes it like its owner.
C16_FlatTrust ==
    /\ \A s \in AccountSessions : \A id \in Ids :
          /\ \A f \in EditForms(id) :
                EditBookingRequest(s, id, f) = EditBookingRequest(Me, id, f)
          /\ DeleteBookingRequest(s, id) = DeleteBookingRequest(Me, id)
    /\ \A s \in AccountSessions : \A sid \in Uuids :
          DeleteSeriesRequest(s, sid) = DeleteSeriesRequest(Me, sid)
    /\ \A s \in AccountSessions : \A b \in bookings :
          s.user # b.account
          => DeleteBookingRequest(s, b.id).tbl = bookings \ {b}

C16_Witness ==
    \E b \in SingleBookings, c \in SeriesBookings :
        /\ b.account = Me.user
        /\ c.account = Me.user
        /\ DeleteBookingRequest(Other, b.id).tbl = bookings \ {b}
        /\ DeleteSeriesRequest(Other, c.series_id).count = 2
        /\ \E f \in SingleForms :
              /\ EditBookingRequest(Other, b.id, f).outcome = "ok_single"
              /\ EditBookingRequest(Other, b.id, f).tbl # bookings

(* ======================= the three conflict checks ===================== *)

\* the range of form f on date d only touches the range of booking o: one
\* ends at the instant the other starts
Touches(o, f, d) ==
    \/ o.end = Combine(d, f.stime)
    \/ o.start = Combine(d, f.etime)

\* C19: creation, single edit and the pre-check of a series edit report a
\* conflict for a date only when a booking of the same room has
\*   start < candidate end  and  end > candidate start,
\* so ranges that only touch and bookings of other rooms never conflict;
\* creation and single edit report every such booking, the series pre-check
\* every such booking of another series.
C19_SameOverlapPredicate ==
    /\ \A f \in ValidForms :
          LET r == NewBookingRequest(Me, f)
          IN \A d \in Range(r.dates) :
                d \in Range(r.flagged)
                <=> \E o \in bookings : /\ o.room = f.room
                                        /\ o.start < Combine(d, f.etime)
                                        /\ o.end > Combine(d, f.stime)
    /\ \A b \in SingleBookings : \A f \in SingleForms :
          EditBookingRequest(Me, b.id, f).outcome = "conflict"
          <=> \E o \in bookings \ {b} :
                 /\ o.room = f.room
                 /\ o.start < Combine(f.date, f.etime)
                 /\ o.end > Combine(f.date, f.stime)
    /\ \A b \in SeriesBookings : \A f \in RepeatForms :
          LET r == EditBookingRequest(Me, b.id, f)
          IN \A d \in Range(r.dates) :
                /\ d \in Range(r.flagged)
                   => \E o \in bookings : /\ o.series_id # b.series_id
                                          /\ o.room = f.room
                                          /\ o.start < Combine(d, f.etime)
                                          /\ o.end > Combine(d, f.stime)
                /\ (\E o \in SeriesBookings :
                       /\ o.series_id # b.series_id
                       /\ o.room = f.room
                       /\ o.start < Combine(d, f.etime)
                       /\ o.end > Combine(d, f.stime))
                   => d \in Range(r.flagged)

C19_Witness ==
    /\ \E o \in bookings : \E f \in SingleForms :
          /\ o.room = f.room
          /\ Touches(o, f, f.date)
          /\ NewBookingRequest(Me, f).count = 1
    /\ \E o \in bookings : \E b \in SingleBookings : \E f \in SingleForms :
          /\ o # b
          /\ o.room = f.room
          /\ Touches(o, f, f.date)
          /\ EditBookingRequest(Me, b.id, f).outcome = "ok_single"
    /\ \E o \in bookings : \E b \in SeriesBookings : \E f \in RepeatForms :
          /\ o.series_id # b.series_id
          /\ o.room = f.room
          /\ \E d \in Range(EditBookingRequest(Me, b.id, f).dates) :
                Touches(o, f, d)
          /\ EditBookingRequest(Me, b.id, f).outcome = "ok_series"

(* ============================ the weekly grid ========================== *)

\* C18: the grid of a week has one bucket for every room of the list and
\* every date from the Monday of the week to the Sunday after it; a booking
\* is in the bucket of its room and start date, once, when that date is in
\* the week, and in no other bucket; every bucket is in ascending start
\* order.
C18_WeeklyGrid ==
    \A start_d \in Days :
        LET page == index(bookings, start_d)
            g == page.grid
        IN /\ Weekday(page.week_start) = 0
           /\ page.week_start <= start_d
           /\ start_d <= page.week_start + 6
           /\ DOMAIN g = ROOMS
           /\ \A room \in ROOMS :
                 /\ DOMAIN g[room] = page.week_start..(page.week_start + 6)
                 /\ \A day \in DOMAIN g[room] :
                       LET bucket == g[room][day]
                       IN /\ Range(bucket) =
                                {b \in bookings : /\ b.room = room
                                                  /\ DateOf(b.start) = day}
                          /\ Len(bucket) = Cardinality(Range(bucket))
                          /\ \A i, j \in 1..Len(bucket) :
                                i < j => bucket[i].start <= bucket[j].start

C18_Witness ==
    \E start_d \in Days : \E room \in ROOMS :
        LET page == index(bookings, start_d)
            bucket == page.grid[room][page.week_start]
        IN /\ Len(bucket) = 2
           /\ bucket[1].start < bucket[2].start
           /\ bucket[1].id > bucket[2].id
           /\ \E b \in bookings : DateOf(b.start) > page.week_end

(* ====================== requests in progress at once =================== *)

\* the series edits in progress, and those committed and not yet answered
SeriesEditsInProgress ==
    {t \in Requests : /\ inflight[t].pc \in {"checked", "flushed"}
                      /\ inflight[t].kind = "series"}

SeriesEditsCommitted ==
    {t \in Requests : /\ inflight[t].pc = "committed"
                      /\ inflight[t].kind = "series"}

C20_NoDoubleBookingInterleaved ==
    \A a \in bookings : \A b \in bookings \ {a} :
        (a.room = b.room /\ a.start < b.end /\ b.start < a.end)
        => (a.series_id = b.series_id /\ a.series_id # NoSeries)

(* -------- a series as created, edited with nothing changed ------------- *)

\* the series of b is the series new_booking made of form f: the same room
\* and times, an occurrence on every candidate date, and on no other date
AsCreated(b, f) ==
    /\ b.series_id # NoSeries
    /\ \A o \in bookings : o.series_id = b.series_id
          => /\ o.room = f.room
             /\ TimeOf(o.start) = f.stime
             /\ o.end - o.start = f.etime - f.stime
    /\ SeriesDates(b) = Range(booking_dates(f.date, f.rdays, f.rend))

\* the edit form that keeps room and times of f and leaves the weekday boxes
\* and the end date empty
Unchanged(f) == [f EXCEPT !.rdays = {}, !.rend = Missing]

\* C21: a series edit with no weekday set and no end date, the same room and
\* the same times, of a series whose occurrences are exactly the candidate
\* dates of the create request that made it, leaves the set of occurrence
\* dates of the series unchanged.
C21_UnchangedEditKeepsDates ==
    \A b \in bookings : \A f \in RegenForms :
        AsCreated(b, f)
        => DatesOfSeries(EditBookingRequest(Me, b.id, Unchanged(f)).tbl,
                         b.series_id) = SeriesDates(b)

(* ------------------- a series edit that books no date ------------------ *)

\* C22: a series edit that succeeds never leaves the series empty: the
\* table it commits holds at least one booking with the identifier of the
\* edited series.
C22_SeriesEditLeavesOccurrence ==
    \A b \in SeriesBookings : \A f \in RepeatForms :
        LET r == EditBookingRequest(Me, b.id, f)
        IN r.outcome = "ok_series"
           => \E o \in r.tbl : o.series_id = b.series_id

(* ----------------------- the rows of one series ------------------------ *)

\* C23: in every reachable state the bookings of one series have the same
\* room, title, account, start time and end time, each starts and ends on
\* one date, and no two of them fall on the same date.
C23_SeriesHomogeneity ==
    \A a \in SeriesBookings : \A b \in SeriesBookings :
        a.series_id = b.series_id
        => /\ a.room = b.room
           /\ a.title = b.title
           /\ a.account = b.account
           /\ TimeOf(a.start) = TimeOf(b.start)
           /\ TimeOf(a.end) = TimeOf(b.end)
           /\ DateOf(a.start) = DateOf(a.end)
           /\ (a # b => DateOf(a.start) # DateOf(b.start))

\* a series of two occurrences next to a booking of another title in the
\* same room, after an edit has shortened another series to one occurrence
C23_Witness ==
    \E a \in SeriesBookings : \E b \in SeriesBookings : \E c \in bookings :
        /\ a.series_id = b.series_id
        /\ DateOf(a.start) < DateOf(b.start)
        /\ c.series_id # a.series_id
        /\ c.series_id # NoSeries
        /\ c.room = a.room
        /\ c.title # a.title

(* ------------------------- requests without login ---------------------- *)

\* the sessions that have not logged in, whose login was refused, or that
\* have logged out since
LoggedOutSessions ==
    {NoSession, login_failed(NoSession)}
    \cup {logout(sess) : sess \in Sessions}
    \cup {login_failed(logout(sess)) : sess \in Sessions}

\* C24: a create, edit, delete or series delete request of a session that
\* has not logged in, or has logged out since, leaves the booking table
\* unchanged.
C24_AuthenticationGate ==
    \A sess \in LoggedOutSessions :
        /\ \A f \in Forms : NewBookingRequest(sess, f).tbl = bookings
        /\ \A id \in Ids : \A f \in Forms :
              EditBookingRequest(sess, id, f).tbl = bookings
        /\ \A sid \in Uuids : DeleteSeriesRequest(sess, sid).tbl = bookings
        /\ \A id \in Ids : DeleteBookingRequest(sess, id).tbl = bookings

\* a table on which each of the four requests changes something when the
\* session is logged in, and the logged-out session is sent to the login page
C24_Witness ==
    \E b \in SeriesBookings : \E c \in SingleBookings : \E f \in SingleForms :
        /\ NewBookingRequest(Me, f).tbl # bookings
        /\ NewBookingRequest(logout(Me), f).outcome = "login_required"
        /\ EditBookingRequest(Me, c.id, f).tbl # bookings
        /\ EditBookingRequest(logout(Me), c.id, f).outcome = "login_required"
        /\ DeleteSeriesRequest(Me, b.series_id).tbl # bookings
        /\ DeleteSeriesRequest(NoSession, b.series_id).outcome
               = "login_required"
        /\ DeleteBookingRequest(Me, c.id).tbl # bookings
        /\ DeleteBookingRequest(logout(Me), c.id).outcome = "login_required"
====
